---- MODULE Spec2Model ----
(***************************************************************************)
(* State-machine model of the two polling HTTPS clients of this           *)
(* repository: AsyncHttpsClient (src/AsyncHttpsClient.h, "strict") and    *)
(* ESPAsyncHttpsClient (src/ESPAsyncHttpsClient.h, "esp").                *)
(*                                                                         *)
(* A character is a one-character string, an Arduino String a sequence of *)
(* characters.  The TLS client `_client` is modelled by its socket state  *)
(* (sock), the peer by the response it sends and how far it has sent it.  *)
(***************************************************************************)
EXTENDS Integers, Sequences, FiniteSets, TLC

\* ---------------------------------------------------------------- bounds
\* Options set through setOptions(), scaled down from the defaults.
TimeoutMs == 1
MaxHeaderBytes == 540
MaxBodyBytes == 4
IoChunkSize == 3

\* ------------------------------------------------------ program constants
LineCap == 512
ChunkLineCap == 64
BufLocalSize == 768
EspBufSize == 512
MinEpoch == 1600000000
ULongCap == 2147483647

IDLE == "IDLE"
CONNECT == "CONNECT"
SEND == "SEND"
READ_HEADERS == "READ_HEADERS"
READ_BODY == "READ_BODY"
DONE == "DONE"
ERROR == "ERROR"

CHUNK_SIZE == "CHUNK_SIZE"
CHUNK_DATA == "CHUNK_DATA"
CHUNK_CRLF == "CHUNK_CRLF"
CHUNK_DONE == "CHUNK_DONE"

M_GET == "M_GET"
M_POST == "M_POST"

\* ------------------------------------------------- Arduino String helpers
Min2(a, b) == IF a < b THEN a ELSE b

SetMin(S) == CHOOSE x \in S : \A y \in S : x <= y

SetMax(S) == CHOOSE x \in S : \A y \in S : x >= y

\* isspace() of the C locale (the vertical tab has no TLA+ literal).
IsSpace(ch) == ch \in {" ", "\t", "\n", "\r", "\f"}

\* String::trim(): drops leading and trailing isspace() characters.
Trim(s) ==
    LET keep == {i \in 1..Len(s) : ~IsSpace(s[i])}
    IN  IF keep = {} THEN <<>> ELSE SubSeq(s, SetMin(keep), SetMax(keep))

\* String::substring(left, right), 0-based, right exclusive.
Substring(s, left, right) ==
    LET l == IF left > right THEN right ELSE left
        r0 == IF left > right THEN left ELSE right
        r == IF r0 > Len(s) THEN Len(s) ELSE r0
    IN  IF l >= Len(s) THEN <<>> ELSE SubSeq(s, l + 1, r)

\* String::substring(from): to the end of the string.
SubstringFrom(s, left) == Substring(s, left, Len(s))

\* String::startsWith(prefix), case-sensitive.
StartsWith(s, p) == Len(s) >= Len(p) /\ SubSeq(s, 1, Len(p)) = p

\* String::endsWith(suffix).
EndsWith(s, p) == Len(s) >= Len(p) /\ SubSeq(s, Len(s) - Len(p) + 1, Len(s)) = p

\* String::indexOf(ch): 0-based index of the first occurrence, -1 if none.
IndexOf(s, ch) ==
    LET at == {i \in 1..Len(s) : s[i] = ch}
    IN  IF at = {} THEN -1 ELSE SetMin(at) - 1

UpperChars == <<"A", "B", "C", "D", "E", "F", "G", "H", "I", "J", "K", "L", "M",
                "N", "O", "P", "Q", "R", "S", "T", "U", "V", "W", "X", "Y", "Z">>

LowerChars == <<"a", "b", "c", "d", "e", "f", "g", "h", "i", "j", "k", "l", "m",
                "n", "o", "p", "q", "r", "s", "t", "u", "v", "w", "x", "y", "z">>

\* The A..Z -> a..z folding done by startsWithNoCase and String::toLowerCase.
ToLower(ch) ==
    IF \E i \in 1..26 : UpperChars[i] = ch
    THEN LowerChars[CHOOSE i \in 1..26 : UpperChars[i] = ch]
    ELSE ch

startsWithNoCase(s, prefix) ==
    /\ Len(s) >= Len(prefix)
    /\ \A i \in 1..Len(prefix) : ToLower(s[i]) = ToLower(prefix[i])

containsNoCase(s, needle) ==
    \E i \in 0..(Len(s) - Len(needle)) :
        \A j \in 1..Len(needle) : ToLower(s[i + j]) = ToLower(needle[j])

DecDigits == <<"0", "1", "2", "3", "4", "5", "6", "7", "8", "9">>

HexLower == <<"a", "b", "c", "d", "e", "f">>

IsDigit(ch) == \E i \in 1..10 : DecDigits[i] = ch

DigitVal(ch) == (CHOOSE i \in 1..10 : DecDigits[i] = ch) - 1

IsHexDigit(ch) == IsDigit(ch) \/ (\E i \in 1..6 : HexLower[i] = ToLower(ch))

HexVal(ch) ==
    IF IsDigit(ch) THEN DigitVal(ch)
    ELSE 9 + (CHOOSE i \in 1..6 : HexLower[i] = ToLower(ch))

\* Skips the leading isspace() characters, as atol and strtoul do.
SkipSpace(s) ==
    LET keep == {i \in 1..Len(s) : ~IsSpace(s[i])}
    IN  IF keep = {} THEN <<>> ELSE SubSeq(s, SetMin(keep), Len(s))

RECURSIVE DecPrefix(_, _)
DecPrefix(s, acc) ==
    IF s = <<>> \/ ~IsDigit(Head(s)) THEN acc
    ELSE DecPrefix(Tail(s), acc * 10 + DigitVal(Head(s)))

\* String::toInt() (atol): optional spaces, optional sign, leading digits;
\* 0 when there are none.
ToInt(s) ==
    LET t == SkipSpace(s)
    IN  IF t = <<>> THEN 0
        ELSE IF Head(t) = "-" THEN 0 - DecPrefix(Tail(t), 0)
        ELSE IF Head(t) = "+" THEN DecPrefix(Tail(t), 0)
        ELSE DecPrefix(t, 0)

RECURSIVE HexPrefix(_, _)
HexPrefix(s, acc) ==
    IF s = <<>> \/ ~IsHexDigit(Head(s)) THEN acc
    ELSE HexPrefix(Tail(s), IF acc > (ULongCap - 15) \div 16 THEN ULongCap
                            ELSE acc * 16 + HexVal(Head(s)))

\* strtoul(str, nullptr, 16): optional spaces, optional sign, optional 0x,
\* leading hex digits, 0 when there are none.  The result is an unsigned
\* long; the values from ULongCap up (among them the saturated ULONG_MAX and
\* every negated non-zero value) are all represented by ULongCap.
Strtoul16(s) ==
    LET t == SkipSpace(s)
        neg == t # <<>> /\ Head(t) = "-"
        u == IF t # <<>> /\ Head(t) \in {"-", "+"} THEN Tail(t) ELSE t
        v == IF Len(u) >= 3 /\ u[1] = "0" /\ u[2] \in {"x", "X"} /\ IsHexDigit(u[3])
             THEN SubSeq(u, 3, Len(u)) ELSE u
        n == HexPrefix(v, 0)
    IN  IF neg /\ n > 0 THEN ULongCap ELSE n

RECURSIVE DecStr(_)
\* String(n) for an unsigned n: its decimal digits.
DecStr(n) ==
    IF n < 10 THEN <<DecDigits[n + 1]>>
    ELSE Append(DecStr(n \div 10), DecDigits[(n % 10) + 1])

\* The hex size line a server writes for a chunk of n bytes.
RECURSIVE HexStr(_)
HexStr(n) ==
    LET d == n % 16
        ch == IF d < 10 THEN DecDigits[d + 1] ELSE HexLower[d - 9]
    IN  IF n < 16 THEN <<ch>> ELSE Append(HexStr(n \div 16), ch)

Rep(ch, n) == [i \in 1..n |-> ch]

\* ------------------------------------------------------- request builder
S_GET == <<"G", "E", "T", " ">>

S_POST == <<"P", "O", "S", "T", " ">>

S_HTTP11_HOST == <<" ", "H", "T", "T", "P", "/", "1", ".", "1", "\r", "\n", "H", "o", "s", "t", ":", " ">>

S_STD_HEADERS == <<"\r", "\n", "U", "s", "e", "r", "-", "A", "g", "e", "n", "t", ":", " ", "e", "s", "p", "-", "s", "e", "c", "u", "r", "e", "/", "1", ".", "0", "\r", "\n", "A", "c", "c", "e", "p", "t", ":", " ", "*", "/", "*", "\r", "\n", "C", "o", "n", "n", "e", "c", "t", "i", "o", "n", ":", " ", "c", "l", "o", "s", "e", "\r", "\n">>

S_CRLF == <<"\r", "\n">>

S_CONTENT_TYPE == <<"C", "o", "n", "t", "e", "n", "t", "-", "T", "y", "p", "e", ":", " ">>

S_CONTENT_LENGTH == <<"\r", "\n", "C", "o", "n", "t", "e", "n", "t", "-", "L", "e", "n", "g", "t", "h", ":", " ">>

S_CRLFCRLF == <<"\r", "\n", "\r", "\n">>

E_HTTP11 == <<" ", "H", "T", "T", "P", "/", "1", ".", "1", "\r", "\n">>

E_HOST == <<"H", "o", "s", "t", ":", " ">>

E_STD == <<"U", "s", "e", "r", "-", "A", "g", "e", "n", "t", ":", " ", "e", "s", "p", "\r", "\n", "A", "c", "c", "e", "p", "t", ":", " ", "*", "/", "*", "\r", "\n", "C", "o", "n", "n", "e", "c", "t", "i", "o", "n", ":", " ", "c", "l", "o", "s", "e", "\r", "\n">>

E_CL == <<"C", "o", "n", "t", "e", "n", "t", "-", "L", "e", "n", "g", "t", "h", ":", " ">>

\* AsyncHttpsClient::beginRequest, the part that fills _req.
BuildRequest(m, host, path, body, contentType, extraHeaders) ==
    LET start == (IF m = M_GET THEN S_GET ELSE S_POST) \o path \o S_HTTP11_HOST
                 \o host \o S_STD_HEADERS
        extra == IF Len(extraHeaders) > 0
                 THEN extraHeaders \o (IF EndsWith(extraHeaders, S_CRLF) THEN <<>> ELSE S_CRLF)
                 ELSE <<>>
        rest == IF m = M_POST
                THEN S_CONTENT_TYPE \o contentType \o S_CONTENT_LENGTH
                     \o DecStr(Len(body)) \o S_CRLFCRLF \o body
                ELSE S_CRLF
    IN  start \o extra \o rest

\* ESPAsyncHttpsClient::beginRequest, the part that fills _request.
EspBuildRequest(m, host, path, body, contentType) ==
    LET start == (IF m = M_GET THEN S_GET ELSE S_POST) \o path \o E_HTTP11
                 \o E_HOST \o host \o S_CRLF \o E_STD
        rest == IF m = M_POST
                THEN S_CONTENT_TYPE \o contentType \o S_CRLF \o E_CL
                     \o DecStr(Len(body)) \o S_CRLFCRLF \o body
                ELSE S_CRLF
    IN  start \o rest

\* The arguments the application passes to beginGet / beginPost.
Host == <<"h">>

Path == <<"/", "p">>

PostBody == <<"x">>

JsonType == <<"a", "p", "p", "l", "i", "c", "a", "t", "i", "o", "n", "/", "j", "s", "o", "n">>

PostExtra == <<"A", ":", "b">>

\* ------------------------------------------- what the server may send back
S_HTTP11 == <<"H", "T", "T", "P", "/", "1", ".", "1">>

S_HTTP2 == <<"H", "T", "T", "P", "/", "2">>

S_CL == <<"C", "o", "n", "t", "e", "n", "t", "-", "L", "e", "n", "g", "t", "h", ":">>

S_TE == <<"T", "r", "a", "n", "s", "f", "e", "r", "-", "E", "n", "c", "o", "d", "i", "n", "g", ":">>

S_CHUNKED == <<"c", "h", "u", "n", "k", "e", "d">>

H_STATUS == <<"H", "T", "T", "P", "/", "1", ".", "1", " ", "2", "0", "0", " ", "O", "K", "\r", "\n">>

H_CL2 == <<"C", "o", "n", "t", "e", "n", "t", "-", "L", "e", "n", "g", "t", "h", ":", " ", "2", "\r", "\n">>

H_TE == <<"T", "r", "a", "n", "s", "f", "e", "r", "-", "E", "n", "c", "o", "d", "i", "n", "g", ":", " ", "c", "h", "u", "n", "k", "e", "d", "\r", "\n">>

H_STATUS201 == <<"H", "T", "T", "P", "/", "1", ".", "1", " ", "2", "0", "1", " ", "C", "r", "e", "a", "t", "e", "d", "\r", "\n">>

PlainHead == H_STATUS \o H_CL2 \o S_CRLF

BareHead == H_STATUS \o S_CRLF

ChunkedHead == H_STATUS201 \o H_TE \o S_CRLF

\* n distinct-looking body bytes: a, b, c, ...
Pattern(n) == [i \in 1..n |-> LowerChars[((i - 1) % 26) + 1]]

RECURSIVE ChunkEncode(_, _)
\* The chunked transfer coding of body cut into chunks of the given sizes:
\* hex size line, data, CRLF for each, then the zero-length last chunk.
ChunkEncode(body, sizes) ==
    IF sizes = <<>> THEN <<"0">> \o S_CRLFCRLF
    ELSE HexStr(Head(sizes)) \o S_CRLF \o SubSeq(body, 1, Head(sizes)) \o S_CRLF
         \o ChunkEncode(SubSeq(body, Head(sizes) + 1, Len(body)), Tail(sizes))

\* The end of the header block of a response: the index of the '\n' that
\* ends its first line of nothing but white space, or one past the last
\* byte when there is no such line.
HeaderEnd(bytes) ==
    LET blank == {i \in 1..Len(bytes) :
                    /\ bytes[i] = "\n"
                    /\ \E p \in 0..(i - 1) :
                          /\ p = 0 \/ bytes[p] = "\n"
                          /\ \A j \in (p + 1)..i : IsSpace(bytes[j])}
    IN  IF blank = {} THEN Len(bytes) + 1 ELSE SetMin(blank)

LineEnds(head) == {i \in 1..Len(head) : head[i] = "\n"}

\* The length of the longest line of a header block, terminator included.
LongestLine(head) ==
    SetMax({i - SetMax({0} \cup {j \in LineEnds(head) : j < i}) : i \in LineEnds(head)})

\* A header block with a header line of n bytes, terminator included.
LongLineHead(n) ==
    H_STATUS \o <<"X", ":">> \o Rep("a", n - 4) \o S_CRLF \o S_CRLF

\* A response: its bytes, the byte counts at which the peer's writes may be
\* cut into fragments (cuts), and what it was built from: the length of the
\* header block (head), the status code, the body and, when chunked, the
\* sizes of the chunks.
PlainResp(head, status, body, cuts) ==
    [bytes |-> head \o body, cuts |-> cuts \cup {Len(head) + Len(body)},
     kind |-> "plain", head |-> Len(head), status |-> status, body |-> body,
     sizes |-> <<>>, longest |-> LongestLine(head)]

ChunkedResp(body, sizes, cuts) ==
    [bytes |-> ChunkedHead \o ChunkEncode(body, sizes),
     cuts |-> cuts \cup {Len(ChunkedHead) + Len(ChunkEncode(body, sizes))},
     kind |-> "chunked", head |-> Len(ChunkedHead), status |-> 201, body |-> body,
     sizes |-> sizes, longest |-> LongestLine(ChunkedHead)]

BadResp(bytes, cuts) ==
    [bytes |-> bytes, cuts |-> cuts \cup {Len(bytes)},
     kind |-> "bad", head |-> HeaderEnd(bytes), status |-> -1, body |-> <<>>,
     sizes |-> <<>>, longest |-> 0]

Responses ==
    << PlainResp(PlainHead, 200, <<"o", "k">>, 1..Len(PlainHead) + 2),
       ChunkedResp(<<"d", "a", "t", "a">>, <<4>>,
                   LineEnds(ChunkedHead) \cup (Len(ChunkedHead)..Len(ChunkedHead) + 14)),
       ChunkedResp(Pattern(3), <<1, 2>>,
                   LineEnds(ChunkedHead) \cup (Len(ChunkedHead)..Len(ChunkedHead) + 18)),
       ChunkedResp(Pattern(3), <<2, 1>>,
                   LineEnds(ChunkedHead) \cup (Len(ChunkedHead)..Len(ChunkedHead) + 18)),
       PlainResp(BareHead, 200, Pattern(MaxBodyBytes + 2),
                 {Len(BareHead)} \cup (Len(BareHead)..Len(BareHead) + MaxBodyBytes + 2)),
       ChunkedResp(Pattern(MaxBodyBytes + 7), <<MaxBodyBytes + 7>>,
                   {Len(ChunkedHead), Len(ChunkedHead) + 6, Len(ChunkedHead) + 12}),
       BadResp(Rep("a", LineCap + 1), {LineCap \div 2}),
       BadResp(Rep("a", 298) \o S_CRLF \o Rep("b", 298) \o S_CRLF, {300}),
       BadResp(ChunkedHead \o Rep("f", ChunkLineCap + 1), {Len(ChunkedHead)}),
       PlainResp(LongLineHead(LineCap), 200, <<"o">>, {Len(LongLineHead(LineCap))}),
       PlainResp(LongLineHead(LineCap + 1), 200, <<"o">>,
                 {Len(LongLineHead(LineCap + 1))}),
       PlainResp(PlainHead, 200, <<"o">>, {Len(PlainHead)}) >>

Rids == 1..Len(Responses)

\* The responses a POST is answered with.
PostRids == {2}

\* ------------------------------------------------------------------ state
VARIABLES
    cfg,      \* which class is instantiated, which onBodyChunk, Options.keepBody
    eng,      \* the fields of the client object
    sock,     \* _client and its peer: open, rx (bytes readable), rid (the
              \* response being sent), dlv (bytes of it delivered), peerClosed
    elapsed,  \* millis() - _t0, saturated just above Options.timeoutMs
    obs       \* the last step: the method called (call, "none" for a step of
              \* the environment), the state and chunk sub-state it was called
              \* in (from, sub), the stream calls it issued (ops), the bytes
              \* print() accepted (wrote), the value begin* returned (ret); and,
              \* for the exchange: the bytes the sink accepted (fwd), the
              \* number of fragments it refused (rejected) and the number
              \* of bytes read from the stream (got)

vars == <<cfg, eng, sock, elapsed, obs>>

\* strict: AsyncHttpsClient with its own onBodyChunk ("default"), keepBody
\* on or off, or with a subclass overriding onBodyChunk ("custom");
\* esp: ESPAsyncHttpsClient.
Profiles ==
    { [variant |-> "strict", sink |-> "default", keepBody |-> TRUE],
      [variant |-> "strict", sink |-> "default", keepBody |-> FALSE],
      [variant |-> "strict", sink |-> "custom", keepBody |-> TRUE],
      [variant |-> "esp", sink |-> "default", keepBody |-> TRUE] }

Terminal == {IDLE, DONE, ERROR}

Active == {CONNECT, SEND, READ_HEADERS, READ_BODY}

\* The member initialisers of the class.
InitEng ==
    [state |-> IDLE, err |-> "", httpStatus |-> -1, body |-> <<>>,
     bodyOverflow |-> FALSE, req |-> <<>>, headerBytes |-> 0,
     contentLength |-> -1, chunked |-> FALSE, seenHeaderEnd |-> FALSE,
     line |-> <<>>, chunkState |-> CHUNK_SIZE, chunkRemaining |-> 0,
     chunkLine |-> <<>>, hasCa |-> FALSE, hasTime |-> FALSE, method |-> M_GET]

NoSock == [open |-> FALSE, rx |-> <<>>, rid |-> 0, dlv |-> 0, peerClosed |-> FALSE]

NoObs ==
    [call |-> "none", from |-> "none", sub |-> "none", ops |-> {}, wrote |-> 0,
     ret |-> "none", fwd |-> <<>>, rejected |-> 0, got |-> 0]

\* The working state of one call: the object, the stream, the record of the
\* call, and the call's inputs (w): abortAt is the number of the fragment at
\* which an overriding onBodyChunk returns false (0: at none), n counts the
\* fragments offered during the call.
Cur(call, abortAt) ==
    [e |-> eng, k |-> sock,
     o |-> [obs EXCEPT !.call = call, !.from = eng.state, !.sub = eng.chunkState,
                       !.ops = {}, !.wrote = 0, !.ret = "none"],
     w |-> [abortAt |-> abortAt, n |-> 0]]

\* _client.connected(): the socket is open and the peer has not closed it,
\* or bytes are still buffered.
connected(m) == m.k.open /\ (~m.k.peerClosed \/ m.k.rx # <<>>)

\* _client.available()
available(m) == IF m.k.open THEN Len(m.k.rx) ELSE 0

\* _client.stop(): closes the socket and drops what was buffered.
ClientStop(m) ==
    [m EXCEPT !.k.open = FALSE, !.k.rx = <<>>, !.o.ops = @ \cup {"stop"}]

\* Mutant: fail() without _client.stop().
fail_NoStop(m, msg) == [m EXCEPT !.e.err = msg, !.e.state = ERROR]

\* AsyncHttpsClient::fail / ESPAsyncHttpsClient::fail
fail(m, msg) ==
    ClientStop([m EXCEPT !.e.err = msg, !.e.state = ERROR])

\* Mutant: stop() that leaves the stream open.
stop_KeepsStream(m) == [m EXCEPT !.e.state = IDLE]

\* AsyncHttpsClient::stop
stop(m) ==
    LET m1 == ClientStop(m) IN [m1 EXCEPT !.e.state = IDLE]

\* Mutant: reset() that leaves the chunk decoder as it was.
reset_KeepsChunk(m) ==
    LET m1 == stop(m)
    IN  [m1 EXCEPT !.e.err = "", !.e.httpStatus = -1, !.e.body = <<>>,
                   !.e.bodyOverflow = FALSE, !.e.req = <<>>, !.e.headerBytes = 0,
                   !.e.contentLength = -1, !.e.chunked = FALSE,
                   !.e.seenHeaderEnd = FALSE, !.e.line = <<>>,
                   !.o.fwd = <<>>, !.o.rejected = 0, !.o.got = 0]

\* AsyncHttpsClient::reset
reset(m) ==
    LET m1 == stop(m)
    IN  [m1 EXCEPT !.e.err = "", !.e.httpStatus = -1, !.e.body = <<>>,
                   !.e.bodyOverflow = FALSE, !.e.req = <<>>, !.e.headerBytes = 0,
                   !.e.contentLength = -1, !.e.chunked = FALSE,
                   !.e.seenHeaderEnd = FALSE, !.e.line = <<>>,
                   !.e.chunkState = CHUNK_SIZE, !.e.chunkRemaining = 0,
                   !.e.chunkLine = <<>>,
                   !.o.fwd = <<>>, !.o.rejected = 0, !.o.got = 0]

\* ESPAsyncHttpsClient::reset
EspReset(m) ==
    LET m1 == ClientStop(m)
    IN  [m1 EXCEPT !.e.state = IDLE, !.e.httpStatus = -1, !.e.err = "",
                   !.e.body = <<>>, !.e.req = <<>>,
                   !.o.fwd = <<>>, !.o.rejected = 0, !.o.got = 0]

\* Mutant: the sink appends whatever the length of the body.
onBodyChunk_NoCap(m, data) ==
    LET m1 == [m EXCEPT !.w.n = @ + 1]
        took == [m1 EXCEPT !.o.fwd = @ \o data]
        refused == [m1 EXCEPT !.o.rejected = @ + 1]
    IN  IF cfg.sink = "custom"
        THEN IF m1.w.n = m1.w.abortAt THEN [m |-> refused, ok |-> FALSE]
             ELSE [m |-> took, ok |-> TRUE]
        ELSE IF ~cfg.keepBody THEN [m |-> took, ok |-> TRUE]
        ELSE [m |-> [took EXCEPT !.e.body = @ \o data], ok |-> TRUE]

\* AsyncHttpsClient::onBodyChunk, or the override of a subclass, which keeps
\* the bytes elsewhere and returns what it likes.  The result is the new
\* working state and the value returned.
onBodyChunk(m, data) ==
    LET m1 == [m EXCEPT !.w.n = @ + 1]
        took == [m1 EXCEPT !.o.fwd = @ \o data]
        refused == [m1 EXCEPT !.o.rejected = @ + 1]
    IN  IF cfg.sink = "custom"
        THEN IF m1.w.n = m1.w.abortAt THEN [m |-> refused, ok |-> FALSE]
             ELSE [m |-> took, ok |-> TRUE]
        ELSE IF ~cfg.keepBody THEN [m |-> took, ok |-> TRUE]
        ELSE IF Len(m.e.body) + Len(data) > MaxBodyBytes
        THEN [m |-> [refused EXCEPT !.e.bodyOverflow = TRUE], ok |-> FALSE]
        ELSE [m |-> [took EXCEPT !.e.body = @ \o data], ok |-> TRUE]

\* ESPAsyncHttpsClient::onBodyChunk
EspOnBodyChunk(m, data) ==
    [m EXCEPT !.e.body = @ \o data, !.o.fwd = @ \o data, !.w.n = @ + 1]

\* Mutant: the refusal of a fragment is always reported as the handler's.
SinkFailMsg_Aborted(m) == "body handler aborted"

\* The message of the fail() call that follows a refused fragment.
SinkFailMsg(m) ==
    IF m.e.bodyOverflow THEN "body exceeded maxBodyBytes" ELSE "body handler aborted"

\* _client.read() / read(buf, n) / readBytes(buf, n): takes the first
\* min(n, available) buffered bytes.
ReadN(m, n) == SubSeq(m.k.rx, 1, Min2(n, Len(m.k.rx)))

Consume(m, n) ==
    [m EXCEPT !.k.rx = SubSeq(@, n + 1, Len(@)), !.o.ops = @ \cup {"read"},
              !.o.got = @ + n]

\* ------------------------------------------------- AsyncHttpsClient steps
\* Mutant: the connect step falls through into the send step.
stepConnect_FallsThrough(m, ok) ==
    LET sent == [m EXCEPT !.o.ops = @ \cup {"write"}, !.o.wrote = Len(m.e.req),
                          !.e.state = READ_HEADERS]
    IN  IF connected(m) THEN sent
        ELSE LET m1 == [sent EXCEPT !.o.ops = @ \cup {"connect"}]
             IN  IF ~ok THEN fail([m1 EXCEPT !.o.ops = @ \ {"write"}, !.o.wrote = 0],
                                  "connect/TLS failed")
                 ELSE [m1 EXCEPT !.k.open = TRUE]

\* `ok` is what _client.connect() returns.
stepConnect(m, ok) ==
    IF connected(m) THEN [m EXCEPT !.e.state = SEND]
    ELSE LET m1 == [m EXCEPT !.o.ops = @ \cup {"connect"}]
         IN  IF ~ok THEN fail(m1, "connect/TLS failed")
             ELSE [m1 EXCEPT !.k.open = TRUE, !.e.state = SEND]

\* `w` is what _client.print(_req) returns.
stepSend(m, w) ==
    IF ~connected(m) THEN fail(m, "socket closed before send")
    ELSE LET m1 == [m EXCEPT !.o.ops = @ \cup {"write"}, !.o.wrote = w]
         IN  IF w = 0 THEN fail(m1, "send failed")
             ELSE [m1 EXCEPT !.e.state = READ_HEADERS]

\* Mutant: the status code is taken one character too early.
HeaderLine_StatusOffBy1(m, raw) ==
    LET line == Trim(raw)
    IN  IF Len(line) = 0
        THEN [m |-> [m EXCEPT !.e.seenHeaderEnd = TRUE, !.e.state = READ_BODY],
              go |-> FALSE]
        ELSE IF StartsWith(line, S_HTTP11) /\ Len(line) >= 12
        THEN [m |-> [m EXCEPT !.e.httpStatus = ToInt(Substring(line, 8, 11))],
              go |-> TRUE]
        ELSE IF startsWithNoCase(line, S_CL)
        THEN [m |-> [m EXCEPT !.e.contentLength =
                                  ToInt(Trim(SubstringFrom(line, Len(S_CL))))],
              go |-> TRUE]
        ELSE IF startsWithNoCase(line, S_TE)
        THEN [m |-> IF containsNoCase(line, S_CHUNKED)
                    THEN [m EXCEPT !.e.chunked = TRUE] ELSE m,
              go |-> TRUE]
        ELSE [m |-> m, go |-> TRUE]

\* What the header loop does with a complete line; `go` tells whether the
\* loop goes on (continue) or the step returns.
HeaderLine(m, raw) ==
    LET line == Trim(raw)
    IN  IF Len(line) = 0
        THEN [m |-> [m EXCEPT !.e.seenHeaderEnd = TRUE, !.e.state = READ_BODY],
              go |-> FALSE]
        ELSE IF StartsWith(line, S_HTTP11) /\ Len(line) >= 12
        THEN [m |-> [m EXCEPT !.e.httpStatus = ToInt(Substring(line, 9, 12))],
              go |-> TRUE]
        ELSE IF startsWithNoCase(line, S_CL)
        THEN [m |-> [m EXCEPT !.e.contentLength =
                                  ToInt(Trim(SubstringFrom(line, Len(S_CL))))],
              go |-> TRUE]
        ELSE IF startsWithNoCase(line, S_TE)
        THEN [m |-> IF containsNoCase(line, S_CHUNKED)
                    THEN [m EXCEPT !.e.chunked = TRUE] ELSE m,
              go |-> TRUE]
        ELSE [m |-> m, go |-> TRUE]

RECURSIVE HeaderLoop_NoHeaderCap(_)
\* Mutant: the header loop without the test of _headerBytes.
HeaderLoop_NoHeaderCap(m) ==
    IF available(m) = 0 THEN m
    ELSE LET nl == IndexOf(m.k.rx, "\n")
             take == IF nl >= 0 THEN nl + 1 ELSE Len(m.k.rx)
             room == LineCap - Len(m.e.line)
             over == [Consume(m, room + 1) EXCEPT
                        !.e.headerBytes = @ + room + 1,
                        !.e.line = @ \o SubSeq(m.k.rx, 1, room + 1)]
             m1 == [Consume(m, take) EXCEPT
                        !.e.headerBytes = @ + take,
                        !.e.line = @ \o SubSeq(m.k.rx, 1, take)]
             r == HeaderLine([m1 EXCEPT !.e.line = <<>>], m1.e.line)
         IN  IF take > room THEN fail(over, "header line too long")
             ELSE IF nl < 0 THEN m1
             ELSE IF r.go THEN HeaderLoop_NoHeaderCap(r.m) ELSE r.m

RECURSIVE HeaderLoop(_)
\* while (_client.available()) { ... } of stepReadHeaders, one line per
\* round.  The loop takes the buffered bytes one at a time up to and with
\* the next '\n' (take of them); each adds 1 to _headerBytes and to _line,
\* so the byte after `room` more is the first to break a cap, the header cap
\* being tested before the byte is appended and the line cap after.
HeaderLoop(m) ==
    IF available(m) = 0 THEN m
    ELSE LET nl == IndexOf(m.k.rx, "\n")
             take == IF nl >= 0 THEN nl + 1 ELSE Len(m.k.rx)
             roomH == MaxHeaderBytes - m.e.headerBytes
             roomL == LineCap - Len(m.e.line)
             room == Min2(roomH, roomL)
             over == [Consume(m, room + 1) EXCEPT
                        !.e.headerBytes = @ + room + 1,
                        !.e.line = @ \o SubSeq(m.k.rx, 1,
                                      IF roomH <= roomL THEN room ELSE room + 1)]
             m1 == [Consume(m, take) EXCEPT
                        !.e.headerBytes = @ + take,
                        !.e.line = @ \o SubSeq(m.k.rx, 1, take)]
             r == HeaderLine([m1 EXCEPT !.e.line = <<>>], m1.e.line)
         IN  IF take > room
             THEN fail(over, IF roomH <= roomL THEN "headers too large"
                             ELSE "header line too long")
             ELSE IF nl < 0 THEN m1
             ELSE IF r.go THEN HeaderLoop(r.m) ELSE r.m

\* Mutant: a header step that finds nothing buffered gives up.
stepReadHeaders_NoWait(m) ==
    IF available(m) = 0 THEN fail(m, "closed during headers")
    ELSE HeaderLoop(m)

stepReadHeaders(m) ==
    IF ~connected(m) /\ available(m) = 0 THEN fail(m, "closed during headers")
    ELSE HeaderLoop(m)

\* min<size_t>(_opt.ioChunkSize, sizeof(bufLocal))
bufSz == Min2(IoChunkSize, BufLocalSize)

\* Mutant: the body step also finishes when Content-Length bytes were passed
\* to the sink.
FinishIfClosed_OrLengthReached(m) ==
    IF \/ ~connected(m) /\ available(m) = 0
       \/ m.e.contentLength >= 0 /\ Len(m.o.fwd) >= m.e.contentLength
    THEN [ClientStop(m) EXCEPT !.e.state = DONE]
    ELSE m

\* Mutant: the body step finishes as soon as nothing is buffered.
FinishIfClosed_WhenIdle(m) ==
    IF available(m) = 0
    THEN [ClientStop(m) EXCEPT !.e.state = DONE]
    ELSE m

\* The closing test of both body steps.
FinishIfClosed(m) ==
    IF ~connected(m) /\ available(m) = 0
    THEN [ClientStop(m) EXCEPT !.e.state = DONE]
    ELSE m

RECURSIVE BodyLoop(_)
\* while (_client.available()) { ... } of stepReadBody
BodyLoop(m) ==
    IF available(m) = 0 THEN m
    ELSE LET data == ReadN(m, bufSz)
             r == onBodyChunk(Consume(m, Len(data)), data)
         IN  IF ~r.ok THEN fail(r.m, SinkFailMsg(r.m)) ELSE BodyLoop(r.m)

RECURSIVE BulkLoop_WholeBuffer(_)
\* Mutant: the bulk read asks for a full buffer whatever is left of the
\* chunk.
BulkLoop_WholeBuffer(m) ==
    IF ~(m.e.chunkRemaining > 0 /\ available(m) > 0) THEN m
    ELSE LET data == ReadN(m, bufSz)
             r == onBodyChunk(Consume(m, Len(data)), data)
         IN  IF ~r.ok THEN fail(r.m, SinkFailMsg(r.m))
             ELSE BulkLoop_WholeBuffer([r.m EXCEPT !.e.chunkRemaining = @ - Len(data)])

RECURSIVE BulkLoop(_)
\* while (_chunkRemaining > 0 && _client.available()) { ... } of CHUNK_DATA
BulkLoop(m) ==
    IF ~(m.e.chunkRemaining > 0 /\ available(m) > 0) THEN m
    ELSE LET want == Min2(m.e.chunkRemaining, bufSz)
             data == ReadN(m, want)
             r == onBodyChunk(Consume(m, Len(data)), data)
         IN  IF ~r.ok THEN fail(r.m, SinkFailMsg(r.m))
             ELSE BulkLoop([r.m EXCEPT !.e.chunkRemaining = @ - Len(data)])

\* case CHUNK_SIZE, on the byte ch
ChunkSizeByte(m, ch) ==
    LET trimmed == Trim(m.e.chunkLine)
        semi == IndexOf(trimmed, ";")
        sizeStr == Trim(IF semi >= 0 THEN Substring(trimmed, 0, semi) ELSE trimmed)
        n == Strtoul16(sizeStr)
        m1 == [m EXCEPT !.e.chunkLine = Append(@, ch)]
    IN  IF ch = "\n"
        THEN [m EXCEPT !.e.chunkRemaining = n, !.e.chunkLine = <<>>,
                       !.e.chunkState = IF n = 0 THEN CHUNK_DONE ELSE CHUNK_DATA]
        ELSE IF Len(m1.e.chunkLine) > ChunkLineCap
        THEN fail(m1, "chunk size line too long")
        ELSE m1

\* Mutant: the first byte of a chunk is not passed to the sink.
ChunkDataByte_FirstByteLost(m, ch) ==
    LET m1 == BulkLoop([m EXCEPT !.e.chunkRemaining = @ - 1])
    IN  IF m1.e.state = ERROR THEN m1
        ELSE IF m1.e.chunkRemaining = 0 THEN [m1 EXCEPT !.e.chunkState = CHUNK_CRLF]
        ELSE m1

\* case CHUNK_DATA, on the byte ch
ChunkDataByte(m, ch) ==
    LET r == onBodyChunk(m, <<ch>>)
        m1 == BulkLoop([r.m EXCEPT !.e.chunkRemaining = @ - 1])
    IN  IF ~r.ok THEN fail(r.m, SinkFailMsg(r.m))
        ELSE IF m1.e.state = ERROR THEN m1
        ELSE IF m1.e.chunkRemaining = 0 THEN [m1 EXCEPT !.e.chunkState = CHUNK_CRLF]
        ELSE m1

RECURSIVE ChunkLoop(_)
\* while (_client.available()) { ... } of stepReadChunkedBody
ChunkLoop(m) ==
    IF available(m) = 0 THEN m
    ELSE LET ch == Head(m.k.rx)
             m1 == Consume(m, 1)
             m2 == CASE m.e.chunkState = CHUNK_SIZE -> ChunkSizeByte(m1, ch)
                    [] m.e.chunkState = CHUNK_DATA -> ChunkDataByte(m1, ch)
                    [] m.e.chunkState = CHUNK_CRLF ->
                         IF ch = "\n" THEN [m1 EXCEPT !.e.chunkState = CHUNK_SIZE]
                         ELSE m1
                    [] m.e.chunkState = CHUNK_DONE -> m1
         IN  IF m2.e.state = ERROR THEN m2 ELSE ChunkLoop(m2)

stepReadChunkedBody(m) ==
    LET m1 == ChunkLoop(m)
    IN  IF m1.e.state = ERROR THEN m1 ELSE FinishIfClosed(m1)

stepReadBody(m) ==
    IF ~m.e.seenHeaderEnd THEN m
    ELSE IF m.e.chunked THEN stepReadChunkedBody(m)
    ELSE LET m1 == BodyLoop(m)
         IN  IF m1.e.state = ERROR THEN m1 ELSE FinishIfClosed(m1)

\* ---------------------------------------------- ESPAsyncHttpsClient steps
\* case CONNECT of poll()
EspConnect(m, ok) ==
    IF connected(m) THEN [m EXCEPT !.e.state = SEND]
    ELSE LET m1 == [m EXCEPT !.o.ops = @ \cup {"connect"}]
         IN  IF ~ok THEN fail(m1, "connect failed")
             ELSE [m1 EXCEPT !.k.open = TRUE, !.e.state = SEND]

\* case SEND of poll()
EspSend(m, w) ==
    LET m1 == [m EXCEPT !.o.ops = @ \cup {"write"}, !.o.wrote = w]
    IN  IF w = 0 THEN fail(m1, "send failed")
        ELSE [m1 EXCEPT !.e.state = READ_HEADERS]

\* The status parsed from a trimmed line, or `old` when it is no status line.
EspStatus(line, old) ==
    LET sp == IndexOf(line, " ")
    IN  IF StartsWith(line, S_HTTP11) /\ Len(line) >= 12
        THEN ToInt(Substring(line, 9, 12))
        ELSE IF StartsWith(line, S_HTTP2) /\ sp > 0 /\ Len(line) >= sp + 4
        THEN ToInt(Substring(line, sp + 1, sp + 4))
        ELSE old

RECURSIVE EspHeaderLoop(_)
\* case READ_HEADERS of poll().  readStringUntil('\n') returns the bytes up to
\* the next '\n', which it drops; with no '\n' buffered it waits for the
\* stream timeout and returns what there is.  (Bytes that arrive during that
\* wait are bytes delivered before the call.)
EspHeaderLoop(m) ==
    IF available(m) = 0
    THEN IF ~connected(m) THEN fail(m, "closed during headers") ELSE m
    ELSE LET nl == IndexOf(m.k.rx, "\n")
             raw == IF nl >= 0 THEN SubSeq(m.k.rx, 1, nl) ELSE m.k.rx
             used == IF nl >= 0 THEN nl + 1 ELSE Len(m.k.rx)
             line == Trim(raw)
             m1 == [Consume(m, used) EXCEPT
                       !.e.httpStatus = EspStatus(line, @)]
         IN  IF Len(line) = 0 THEN [m1 EXCEPT !.e.state = READ_BODY]
             ELSE EspHeaderLoop(m1)

RECURSIVE EspBodyLoop(_)
EspBodyLoop(m) ==
    IF available(m) = 0 THEN m
    ELSE LET data == ReadN(m, EspBufSize)
         IN  EspBodyLoop(EspOnBodyChunk(Consume(m, Len(data)), data))

\* case READ_BODY of poll()
EspReadBody(m) == FinishIfClosed(EspBodyLoop(m))

\* ---------------------------------------------------------------- actions
Init ==
    /\ cfg \in Profiles
    /\ eng = InitEng
    /\ sock = NoSock
    /\ elapsed = 0
    /\ obs = NoObs

\* Writes the working state back.  A call of the application that closes the
\* stream ends the connection, so the peer is forgotten (forget).
Commit(m, forget) ==
    /\ eng' = m.e
    /\ sock' = IF forget THEN NoSock ELSE m.k
    /\ obs' = m.o

\* A step of the environment: the record of the last call is cleared.
Quiet ==
    obs' = [obs EXCEPT !.call = "none", !.from = "none", !.sub = "none",
                       !.ops = {}, !.wrote = 0, !.ret = "none"]

\* A call that changes nothing but the record of the last call.
Called(call) ==
    obs' = [obs EXCEPT !.call = call, !.from = eng.state, !.sub = eng.chunkState,
                       !.ops = {}, !.wrote = 0, !.ret = "none"]

\* AsyncHttpsClient::setCACert; valid tells whether the PEM is non-empty.
\* Configuration is done while no exchange is set up.
SetCACert ==
    /\ cfg.variant = "strict" /\ eng.state = IDLE /\ eng.req = <<>>
    /\ \E valid \in BOOLEAN : eng' = [eng EXCEPT !.hasCa = valid]
    /\ Called("setCACert")
    /\ UNCHANGED <<cfg, sock, elapsed>>

\* AsyncHttpsClient::setUnixTime
SetUnixTime ==
    /\ cfg.variant = "strict" /\ eng.state = IDLE /\ eng.req = <<>>
    /\ \E nowEpoch \in {0, MinEpoch, MinEpoch + 1} :
          eng' = [eng EXCEPT !.hasTime = (nowEpoch > MinEpoch)]
    /\ Called("setUnixTime")
    /\ UNCHANGED <<cfg, sock, elapsed>>

\* Mutant: beginRequest without the test of _hasTime.
beginRequest_NoTimeCheck(mth, body, contentType, extraHeaders, rid) ==
    LET m1 == reset(Cur(IF mth = M_GET THEN "beginGet" ELSE "beginPost", 0))
        m2 == [m1 EXCEPT !.e.method = mth,
                         !.e.req = BuildRequest(mth, Host, Path, body, contentType,
                                                extraHeaders),
                         !.e.state = CONNECT, !.o.ret = "true"]
    IN  IF ~eng.hasCa
        THEN /\ Commit([fail(m1, "TLS CA cert not set (setCACert)")
                           EXCEPT !.o.ret = "false"], TRUE)
             /\ UNCHANGED <<cfg, elapsed>>
        ELSE /\ eng' = m2.e
             /\ sock' = [NoSock EXCEPT !.rid = rid]
             /\ obs' = m2.o
             /\ elapsed' = 0
             /\ UNCHANGED cfg

\* AsyncHttpsClient::beginRequest; rid is the response the server will send.
beginRequest(mth, body, contentType, extraHeaders, rid) ==
    LET m1 == reset(Cur(IF mth = M_GET THEN "beginGet" ELSE "beginPost", 0))
        m2 == [m1 EXCEPT !.e.method = mth,
                         !.e.req = BuildRequest(mth, Host, Path, body, contentType,
                                                extraHeaders),
                         !.e.state = CONNECT, !.o.ret = "true"]
    IN  IF ~eng.hasCa
        THEN /\ Commit([fail(m1, "TLS CA cert not set (setCACert)")
                           EXCEPT !.o.ret = "false"], TRUE)
             /\ UNCHANGED <<cfg, elapsed>>
        ELSE IF ~eng.hasTime
        THEN /\ Commit([fail(m1, "System time not set (setUnixTime / SNTP)")
                           EXCEPT !.o.ret = "false"], TRUE)
             /\ UNCHANGED <<cfg, elapsed>>
        ELSE /\ eng' = m2.e
             /\ sock' = [NoSock EXCEPT !.rid = rid]
             /\ obs' = m2.o
             /\ elapsed' = 0
             /\ UNCHANGED cfg

\* ESPAsyncHttpsClient::beginRequest
EspBeginRequest(mth, body, contentType, rid) ==
    LET m1 == EspReset(Cur(IF mth = M_GET THEN "beginGet" ELSE "beginPost", 0))
        m2 == [m1 EXCEPT !.e.method = mth,
                         !.e.req = EspBuildRequest(mth, Host, Path, body, contentType),
                         !.e.state = CONNECT, !.o.ret = "void"]
    IN  /\ eng' = m2.e
        /\ sock' = [NoSock EXCEPT !.rid = rid]
        /\ obs' = m2.o
        /\ elapsed' = 0
        /\ UNCHANGED cfg

BeginGet ==
    \E rid \in Rids :
        IF cfg.variant = "strict"
        THEN beginRequest(M_GET, <<>>, <<>>, <<>>, rid)
        ELSE EspBeginRequest(M_GET, <<>>, <<>>, rid)

BeginPost ==
    \E rid \in PostRids :
        IF cfg.variant = "strict"
        THEN beginRequest(M_POST, PostBody, JsonType, PostExtra, rid)
        ELSE EspBeginRequest(M_POST, PostBody, JsonType, rid)

\* AsyncHttpsClient::stop
Stop ==
    /\ cfg.variant = "strict"
    /\ Commit(stop(Cur("stop", 0)), TRUE)
    /\ UNCHANGED <<cfg, elapsed>>

\* AsyncHttpsClient::reset / ESPAsyncHttpsClient::reset (which also zeroes
\* _startMs, so that millis() - _startMs is the uptime).
Reset ==
    /\ IF cfg.variant = "strict"
       THEN Commit(reset(Cur("reset", 0)), TRUE) /\ UNCHANGED elapsed
       ELSE Commit(EspReset(Cur("reset", 0)), TRUE) /\ elapsed' = TimeoutMs + 1
    /\ UNCHANGED cfg

\* Mutant: the first line of poll() forgets ERROR.
pollReturnsAtOnce_NoError(st) == st = IDLE \/ st = DONE

\* The first line of poll(): nothing is done in these states.
pollReturnsAtOnce(st) == st = IDLE \/ st = DONE \/ st = ERROR

\* Mutant: the deadline test compares with a later deadline.
timedOut_Late == elapsed > TimeoutMs + 1

\* The test that follows: millis() - _t0 > _opt.timeoutMs
timedOut == elapsed > TimeoutMs

\* poll() returning at its first line, or falling through the switch.
PollNothing ==
    /\ \/ pollReturnsAtOnce(eng.state)
       \/ ~timedOut /\ eng.state \notin {CONNECT, SEND, READ_HEADERS, READ_BODY}
    /\ Called("poll")
    /\ UNCHANGED <<cfg, eng, sock, elapsed>>

\* Mutant: the timeout branch returns without failing.
PollTimeout_NoFail ==
    /\ ~pollReturnsAtOnce(eng.state)
    /\ timedOut
    /\ Called("poll")
    /\ UNCHANGED <<cfg, eng, sock, elapsed>>

\* poll() after the deadline: fail("timeout").
PollTimeout ==
    /\ ~pollReturnsAtOnce(eng.state)
    /\ timedOut
    /\ Commit(fail(Cur("poll", 0), "timeout"), FALSE)
    /\ UNCHANGED <<cfg, elapsed>>

PollConnect ==
    /\ ~pollReturnsAtOnce(eng.state) /\ ~timedOut
    /\ eng.state = CONNECT
    /\ \E ok \in BOOLEAN :
          Commit(IF cfg.variant = "strict" THEN stepConnect(Cur("poll", 0), ok)
                 ELSE EspConnect(Cur("poll", 0), ok), FALSE)
    /\ UNCHANGED <<cfg, elapsed>>

\* print() returns the number of bytes it wrote: none, some or all; none when
\* the stream is not connected.
PollSend ==
    /\ ~pollReturnsAtOnce(eng.state) /\ ~timedOut
    /\ eng.state = SEND
    /\ \E w \in (IF connected(Cur("poll", 0)) THEN {0, 1, Len(eng.req)} ELSE {0}) :
          Commit(IF cfg.variant = "strict" THEN stepSend(Cur("poll", 0), w)
                 ELSE EspSend(Cur("poll", 0), w), FALSE)
    /\ UNCHANGED <<cfg, elapsed>>

PollReadHeaders ==
    /\ ~pollReturnsAtOnce(eng.state) /\ ~timedOut
    /\ eng.state = READ_HEADERS
    /\ Commit(IF cfg.variant = "strict" THEN stepReadHeaders(Cur("poll", 0))
              ELSE EspHeaderLoop(Cur("poll", 0)), FALSE)
    /\ UNCHANGED <<cfg, elapsed>>

\* Mutant: the body is read without the deadline having been tested.
PollReadBody_NoDeadlineTest ==
    /\ ~pollReturnsAtOnce(eng.state)
    /\ eng.state = READ_BODY
    /\ \E abortAt \in 0..(IF cfg.sink = "custom" THEN Len(sock.rx) ELSE 0) :
          Commit(IF cfg.variant = "strict" THEN stepReadBody(Cur("poll", abortAt))
                 ELSE EspReadBody(Cur("poll", 0)), FALSE)
    /\ UNCHANGED <<cfg, elapsed>>

\* The fragments one call can offer to the sink are at most the bytes buffered.
PollReadBody ==
    /\ ~pollReturnsAtOnce(eng.state) /\ ~timedOut
    /\ eng.state = READ_BODY
    /\ \E abortAt \in 0..(IF cfg.sink = "custom" THEN Len(sock.rx) ELSE 0) :
          Commit(IF cfg.variant = "strict" THEN stepReadBody(Cur("poll", abortAt))
                 ELSE EspReadBody(Cur("poll", 0)), FALSE)
    /\ UNCHANGED <<cfg, elapsed>>

Poll ==
    \/ PollNothing
    \/ PollTimeout
    \/ PollConnect
    \/ PollSend
    \/ PollReadHeaders
    \/ PollReadBody

\* A millisecond passes.
Tick ==
    /\ elapsed <= TimeoutMs
    /\ elapsed' = elapsed + 1
    /\ Quiet
    /\ UNCHANGED <<cfg, eng, sock>>

\* The next k bytes of the response reach the client.
Deliver ==
    /\ sock.open /\ ~sock.peerClosed
    /\ \E k \in 1..(Len(Responses[sock.rid].bytes) - sock.dlv) :
          /\ sock.dlv + k \in Responses[sock.rid].cuts
          /\ sock' = [sock EXCEPT
                        !.rx = @ \o SubSeq(Responses[sock.rid].bytes,
                                           sock.dlv + 1, sock.dlv + k),
                        !.dlv = @ + k]
    /\ Quiet
    /\ UNCHANGED <<cfg, eng, elapsed>>

\* The server closes the connection, after the whole response or before.
PeerClose ==
    /\ sock.open /\ ~sock.peerClosed
    /\ sock' = [sock EXCEPT !.peerClosed = TRUE]
    /\ Quiet
    /\ UNCHANGED <<cfg, eng, elapsed>>

Next ==
    \/ SetCACert
    \/ SetUnixTime
    \/ BeginGet
    \/ BeginPost
    \/ Stop
    \/ Reset
    \/ Poll
    \/ Tick
    \/ Deliver
    \/ PeerClose

Spec == Init /\ [][Next]_vars

\* poll() is called again and again from loop(), and time passes.
FairSpec == Spec /\ WF_vars(Tick) /\ WF_vars(PollTimeout)

\* ------------------------------------------------- vocabulary of the claims
BeginCalls == {"beginGet", "beginPost"}

StreamIO == {"connect", "read", "write"}

DefaultKeep == cfg.variant = "strict" /\ cfg.sink = "default" /\ cfg.keepBody

\* The response of the current exchange.
Resp == Responses[sock.rid]

\* The stream is open and silent: nothing to read, and the peer has not closed.
Silent == sock.open /\ ~sock.peerClosed /\ sock.rx = <<>>

\* ----------------------------------------------------------------- C1
\* C1: a poll() made in IDLE, DONE or ERROR changes no field of the client
\* and nothing of the stream and issues no stream call, whatever the clock
\* says; and the state leaves IDLE, DONE or ERROR only in a call of beginGet,
\* beginPost, reset or stop, the last two giving IDLE.
C1_PollIsNoOpWhenTerminal ==
    [][ /\ (obs'.call = "poll" /\ eng.state \in {IDLE, DONE, ERROR})
           => (eng' = eng /\ sock' = sock /\ obs'.ops = {})
        /\ (eng.state \in {IDLE, DONE, ERROR} /\ eng'.state # eng.state)
           => /\ obs'.call \in BeginCalls \cup {"reset", "stop"}
              /\ obs'.call \in {"reset", "stop"} => eng'.state = IDLE ]_vars

\* A poll() was made in ERROR after the timeout had passed, and the error of
\* the failed connect is still there.
C1_Witness ==
    /\ obs.call = "poll" /\ eng.state = ERROR
    /\ eng.err \in {"connect/TLS failed", "connect failed"}
    /\ elapsed > TimeoutMs

\* ----------------------------------------------------------------- C2
\* C2: while an exchange is in progress on a stream that is open and silent,
\* a poll() changes nothing until the timeout has passed and then gives ERROR
\* with "timeout", so DONE is not reached; in CONNECT and SEND too the poll()
\* made after the timeout gives ERROR with "timeout"; DONE is reached in no
\* exchange in which no byte arrived; and with poll() called repeatedly and
\* time passing, the silence does not last: the exchange leaves
\* READ_HEADERS / READ_BODY.
C2_TimeoutDominates ==
    /\ [][ (obs'.call = "poll" /\ eng.state \in {READ_HEADERS, READ_BODY} /\ Silent)
           => IF elapsed > TimeoutMs
              THEN eng'.state = ERROR /\ eng'.err = "timeout"
              ELSE eng' = eng ]_vars
    /\ [][ (obs'.call = "poll" /\ eng.state \in {CONNECT, SEND} /\ elapsed > TimeoutMs)
           => (eng'.state = ERROR /\ eng'.err = "timeout") ]_vars
    /\ [](eng.state = DONE => sock.dlv > 0)
    /\ (eng.state \in {READ_HEADERS, READ_BODY} /\ Silent)
          ~> ~(eng.state \in {READ_HEADERS, READ_BODY} /\ Silent)

\* The exchange timed out in READ_BODY without a body byte having arrived.
C2_Witness ==
    /\ obs.call = "poll" /\ eng.state = ERROR /\ eng.err = "timeout"
    /\ eng.seenHeaderEnd /\ obs.fwd = <<>> /\ ~sock.peerClosed
    /\ sock.dlv = Resp.head

\* ----------------------------------------------------------------- C3
\* C3: every step that puts the client in ERROR calls _client.stop() in that
\* step and leaves the stream closed; the stream stays closed while the
\* state is ERROR, and no call made in ERROR other than beginGet / beginPost
\* issues a connect, read or write.
C3_ErrorClosesStream ==
    [][ /\ (eng'.state = ERROR /\ (eng.state # ERROR \/ obs'.call \in BeginCalls))
           => ("stop" \in obs'.ops /\ ~sock'.open /\ sock'.rx = <<>>)
        /\ eng'.state = ERROR => ~sock'.open
        /\ (eng.state = ERROR /\ obs'.call \notin BeginCalls)
           => obs'.ops \cap StreamIO = {} ]_vars

\* The header line cap was hit (one of the ten causes; each of the others
\* is reachable as well) and the stream is closed with bytes undelivered.
C3_Witness ==
    /\ eng.state = ERROR /\ eng.err = "header line too long"
    /\ "stop" \in obs.ops /\ "read" \in obs.ops /\ ~sock.open

\* ----------------------------------------------------------------- C4
IsPrefix(a, b) == Len(a) <= Len(b) /\ SubSeq(b, 1, Len(a)) = a

\* The number of bytes of the response the client has taken off the stream.
Consumed == sock.dlv - Len(sock.rx)

ConsumedNext == sock'.dlv - Len(sock'.rx)

\* The server closes the connection only after the whole response.
ClosesAfterAll == sock.peerClosed => sock.dlv = Len(Resp.bytes)

\* A poll() that reads: made in READ_HEADERS or READ_BODY before the timeout.
ReadingPoll ==
    obs'.call = "poll" /\ eng.state \in {READ_HEADERS, READ_BODY} /\ elapsed <= TimeoutMs

\* What a poll() of the client with its own sink and keepBody does with a
\* non-chunked response: it does not fail; the header parser stops exactly
\* at the end of the header block, with the status sent; the body read so
\* far is the body delivered so far; once the server has closed, a poll() in
\* READ_BODY gives DONE; and in DONE the status is the status sent and the
\* body the body sent.
ReadsPlain ==
    /\ eng'.state \in {READ_HEADERS, READ_BODY, DONE}
    /\ eng.state = READ_HEADERS =>
          IF sock.dlv >= Resp.head
          THEN /\ eng'.state = READ_BODY /\ ConsumedNext = Resp.head
               /\ eng'.httpStatus = Resp.status /\ eng'.body = <<>>
          ELSE eng'.state = READ_HEADERS /\ ConsumedNext = sock.dlv
    /\ eng.state = READ_BODY =>
          /\ eng'.body = SubSeq(Resp.body, 1, sock.dlv - Resp.head)
          /\ eng'.state = IF sock.peerClosed THEN DONE ELSE READ_BODY
    /\ eng'.state = DONE =>
          eng'.httpStatus = Resp.status /\ eng'.body = Resp.body

\* A non-chunked response whose header block and body are within the
\* configured caps, from a server that closes after the whole response, is
\* being read by a poll() made before the timeout.
WithinCaps ==
    /\ DefaultKeep /\ ReadingPoll /\ ClosesAfterAll
    /\ Resp.kind = "plain" /\ Resp.head <= MaxHeaderBytes
    /\ Len(Resp.body) <= MaxBodyBytes

\* C4 as stated: every non-chunked response within the configured caps, cut
\* into fragments anyhow, is read to DONE with the status and the body sent.
C4_AsStated == [][WithinCaps => ReadsPlain]_vars

\* C4: AsyncHttpsClient with its own sink and keepBody reads to DONE, with
\* the status and exactly the body sent, every non-chunked response within
\* the configured caps none of whose header lines is longer than the line
\* buffer (512 bytes, terminator included), however it is cut into
\* fragments, when the server closes after the whole response and before
\* the timeout.
C4_PlainResponseRead ==
    [][(WithinCaps /\ Resp.longest <= LineCap) => ReadsPlain]_vars

\* The response of the scenario was read to the end, its last fragment being
\* its last byte alone.
C4_Witness ==
    /\ DefaultKeep /\ obs.call = "poll" /\ eng.state = DONE
    /\ sock.rid = 1 /\ eng.httpStatus = 200 /\ eng.body = <<"o", "k">>
    /\ eng.contentLength = 2 /\ sock.dlv = Len(Resp.bytes)

\* ----------------------------------------------------------------- C5
\* C5: AsyncHttpsClient reading a chunked response (any of the bodies and
\* splits into chunks of Responses), cut into fragments anyhow, from a
\* server that closes after the whole response, the body being within the
\* cap when the client's own sink keeps it: a poll() in READ_BODY made
\* before the timeout fails only if an overriding sink refuses a fragment;
\* the bytes the sink has accepted are always the first bytes of the body
\* encoded; once the server has closed, the poll() that has not failed gives
\* DONE; and in DONE the bytes accepted, and body() when it is kept, are the
\* body encoded.
C5_ChunkedRoundTrip ==
    [][ ( /\ cfg.variant = "strict" /\ ReadingPoll /\ eng.state = READ_BODY
          /\ ClosesAfterAll /\ Resp.kind = "chunked"
          /\ DefaultKeep => Len(Resp.body) <= MaxBodyBytes )
        => /\ eng'.state \in {READ_BODY, DONE, ERROR}
           /\ eng'.state = ERROR =>
                 cfg.sink = "custom" /\ eng'.err = "body handler aborted"
           /\ IsPrefix(obs'.fwd, Resp.body)
           /\ DefaultKeep => eng'.body = obs'.fwd
           /\ (sock.peerClosed /\ eng'.state # ERROR) => eng'.state = DONE
           /\ eng'.state = DONE =>
                 /\ obs'.fwd = Resp.body
                 /\ eng'.chunkState = CHUNK_DONE /\ eng'.chunkRemaining = 0 ]_vars

\* A body sent as a chunk of 1 byte and a chunk of 2 was read to the end.
C5_Witness ==
    /\ DefaultKeep /\ obs.call = "poll" /\ eng.state = DONE
    /\ Resp.kind = "chunked" /\ Resp.sizes = <<1, 2>>
    /\ eng.body = Resp.body /\ sock.dlv = Len(Resp.bytes)

\* ----------------------------------------------------------------- C6
\* C6: in AsyncHttpsClient body() is never longer than maxBodyBytes.  With
\* the client's own sink, keepBody on and a non-chunked response, a poll() in
\* READ_BODY leaves in body() all the body bytes delivered when they are at
\* most maxBodyBytes, and otherwise sets the overflow flag with body() still
\* within the cap; the flag is set by refusing one fragment, at most one
\* fragment is refused in an exchange, and once the flag is set no fragment
\* is accepted or refused and body() does not change until reset() or the
\* next begin*.
C6_BodyWithinCap ==
    /\ [](cfg.variant = "strict" => Len(eng.body) <= MaxBodyBytes)
    /\ []((cfg.variant = "strict" /\ cfg.sink = "default")
            => /\ obs.rejected <= 1
               /\ eng.bodyOverflow <=> obs.rejected = 1)
    /\ [][ (DefaultKeep /\ ReadingPoll /\ eng.state = READ_BODY /\ Resp.kind = "plain")
           => IF sock.dlv - Resp.head <= MaxBodyBytes
              THEN /\ ~eng'.bodyOverflow
                   /\ eng'.body = SubSeq(Resp.body, 1, sock.dlv - Resp.head)
              ELSE /\ eng'.bodyOverflow
                   /\ IsPrefix(eng'.body, Resp.body) ]_vars
    /\ [][ (eng.bodyOverflow /\ obs'.call \notin BeginCalls \cup {"reset"})
           => /\ eng'.bodyOverflow /\ eng'.body = eng.body
              /\ obs'.fwd = obs.fwd /\ obs'.rejected = obs.rejected ]_vars

\* The sink refused a fragment of a body longer than the cap, having kept
\* some bytes of it.
C6_Witness ==
    /\ DefaultKeep /\ eng.bodyOverflow /\ obs.rejected = 1
    /\ Resp.kind = "plain" /\ Len(Resp.body) > MaxBodyBytes
    /\ 0 < Len(eng.body) /\ Len(eng.body) <= MaxBodyBytes

\* ----------------------------------------------------------------- C7
\* C7: AsyncHttpsClient with its own sink and keepBody: the poll() in which
\* the overflow flag goes up ends in ERROR with "body exceeded maxBodyBytes"
\* and leaves in body() what had been accepted before; a poll() in READ_BODY
\* that finds more body bytes delivered than maxBodyBytes (non-chunked), or
\* the whole of a chunked response whose body is longer, ends so; body() is
\* not changed while the state is ERROR; and DONE is never reached with the
\* flag up or with more body bytes delivered than the cap.
C7_BodyTooLarge ==
    /\ [][ (DefaultKeep /\ obs'.call = "poll" /\ ~eng.bodyOverflow /\ eng'.bodyOverflow)
           => /\ eng'.state = ERROR /\ eng'.err = "body exceeded maxBodyBytes"
              /\ IsPrefix(eng.body, eng'.body) /\ IsPrefix(eng'.body, Resp.body)
              /\ eng'.body = obs'.fwd ]_vars
    /\ [][ ( /\ DefaultKeep /\ ReadingPoll /\ eng.state = READ_BODY
             /\ \/ Resp.kind = "plain" /\ sock.dlv - Resp.head > MaxBodyBytes
                \/ /\ Resp.kind = "chunked" /\ sock.dlv = Len(Resp.bytes)
                   /\ Len(Resp.body) > MaxBodyBytes )
           => /\ eng'.state = ERROR /\ eng'.err = "body exceeded maxBodyBytes"
              /\ eng'.bodyOverflow ]_vars
    /\ [][ (eng.state = ERROR /\ obs'.call \notin BeginCalls \cup {"reset"})
           => eng'.body = eng.body ]_vars
    /\ []((DefaultKeep /\ eng.state = DONE)
            => /\ ~eng.bodyOverflow
               /\ Resp.kind = "plain" => sock.dlv - Resp.head <= MaxBodyBytes
               /\ (Resp.kind = "chunked" /\ sock.dlv = Len(Resp.bytes))
                     => Len(Resp.body) <= MaxBodyBytes)

\* A chunked body longer than the cap ended the exchange in ERROR, the bytes
\* accepted before the refused fragment being kept.
C7_Witness ==
    /\ DefaultKeep /\ eng.state = ERROR /\ eng.err = "body exceeded maxBodyBytes"
    /\ eng.bodyOverflow /\ Resp.kind = "chunked" /\ eng.body # <<>>
    /\ IsPrefix(eng.body, Resp.body) /\ obs.call = "poll"

\* ----------------------------------------------------------------- C8
\* The server has sent some bytes of the header block and closed before the
\* end of the blank line that terminates it.
Truncated == sock.peerClosed /\ 0 < sock.dlv /\ sock.dlv < Resp.head

\* C8: in both clients, when the server has closed after some header bytes
\* and before the blank line, a poll() in READ_HEADERS made before the
\* timeout leaves the state READ_HEADERS or ERROR: ERROR when no byte is
\* left to read, with "closed during headers" (or, the bytes sent being
\* over a header cap, with the cap's description), and READ_HEADERS only
\* with every byte read, so that the next poll() fails; READ_BODY and DONE
\* are never entered in such an exchange.
C8_ClosedDuringHeaders ==
    /\ [][ ( /\ obs'.call = "poll" /\ eng.state = READ_HEADERS
             /\ Truncated /\ elapsed <= TimeoutMs )
           => /\ eng'.state \in {READ_HEADERS, ERROR}
              /\ sock.rx = <<>> =>
                    eng'.state = ERROR /\ eng'.err = "closed during headers"
              /\ eng'.state = READ_HEADERS => sock'.rx = <<>>
              /\ eng'.state = ERROR =>
                    \/ eng'.err = "closed during headers"
                    \/ /\ Resp.kind = "bad"
                       /\ eng'.err \in {"headers too large", "header line too long"} ]_vars
    /\ [](Truncated => eng.state \notin {READ_BODY, DONE})

\* ----------------------------------------------------------------- C9
\* C9: in AsyncHttpsClient a beginGet or beginPost made while the CA
\* certificate or the time is not set returns false and leaves the state
\* ERROR with a description, the request buffer empty and the stream closed,
\* having issued no connect, read or write; and a poll() after it changes
\* nothing and issues no operation on the stream.
C9_BeginWithoutPrerequisites ==
    /\ [][ ( /\ obs'.call \in BeginCalls /\ cfg.variant = "strict"
             /\ ~eng.hasCa \/ ~eng.hasTime )
           => /\ obs'.ret = "false"
              /\ eng'.state = ERROR /\ eng'.err # ""
              /\ eng'.req = <<>>
              /\ obs'.ops \cap StreamIO = {} /\ ~sock'.open ]_vars
    /\ [][ (obs'.call = "poll" /\ eng.state = ERROR /\ eng.req = <<>>)
           => (eng' = eng /\ sock' = sock /\ obs'.ops = {}) ]_vars

\* poll() was called after a begin* refused for the time not being set, the
\* certificate being set.
C9_Witness ==
    /\ obs.call = "poll" /\ eng.state = ERROR /\ eng.req = <<>>
    /\ eng.err = "System time not set (setUnixTime / SNTP)"
    /\ eng.hasCa /\ ~eng.hasTime

\* ---------------------------------------------------------------- C10
\* C10: stop() and reset() close the stream and leave the state IDLE,
\* whatever the state was; a poll() in IDLE changes nothing and issues no
\* operation on the stream; and the state leaves IDLE only by a begin*.
C10_StopResetCancel ==
    /\ [][ obs'.call \in {"stop", "reset"}
           => /\ eng'.state = IDLE
              /\ "stop" \in obs'.ops /\ obs'.ops \cap StreamIO = {}
              /\ ~sock'.open /\ sock'.rx = <<>> ]_vars
    /\ [][ (obs'.call = "poll" /\ eng.state = IDLE)
           => (eng' = eng /\ sock' = sock /\ obs'.ops = {}) ]_vars
    /\ [][ (eng.state = IDLE /\ eng'.state # IDLE) => obs'.call \in BeginCalls ]_vars

\* poll() was called after stop() had cancelled an exchange in the middle of
\* a chunk.
C10_Witness ==
    /\ obs.call = "poll" /\ eng.state = IDLE /\ ~sock.open
    /\ eng.chunkState = CHUNK_DATA /\ eng.chunkRemaining > 0 /\ eng.req # <<>>

\* ---------------------------------------------------------------- C11
\* C11: a beginGet or beginPost that starts an exchange, whatever the state
\* it is called in, leaves the state CONNECT with every transient field at
\* its initial value (status -1, no error description, empty body, overflow
\* flag down, header byte count 0, empty line buffer, content length -1,
\* not chunked, end of headers not seen, chunk sub-state CHUNK_SIZE with 0
\* remaining and an empty size line), nothing accepted or refused by the
\* sink, a stream not yet connected, the elapsed time 0, and the options
\* as they were.
C11_FreshBegin ==
    [][ (obs'.call \in BeginCalls /\ obs'.ret # "false")
        => /\ eng'.state = CONNECT
           /\ eng'.httpStatus = -1 /\ eng'.err = "" /\ eng'.body = <<>>
           /\ ~eng'.bodyOverflow /\ eng'.headerBytes = 0 /\ eng'.line = <<>>
           /\ eng'.contentLength = -1 /\ ~eng'.chunked /\ ~eng'.seenHeaderEnd
           /\ eng'.chunkState = CHUNK_SIZE /\ eng'.chunkRemaining = 0
           /\ eng'.chunkLine = <<>>
           /\ obs'.fwd = <<>> /\ obs'.rejected = 0
           /\ ~sock'.open /\ sock'.rx = <<>> /\ sock'.dlv = 0
           /\ elapsed' = 0
           /\ cfg' = cfg ]_vars

\* An exchange was started while the previous one was in the middle of a
\* chunk.
C11_Witness ==
    /\ obs.call \in BeginCalls /\ obs.ret = "true"
    /\ obs.from = READ_BODY /\ obs.sub = CHUNK_DATA
    /\ eng.state = CONNECT /\ eng.chunkState = CHUNK_SIZE

\* ---------------------------------------------------------------- C12
\* C12: with the clock advancing and poll() being called, an exchange in
\* progress (state CONNECT, SEND, READ_HEADERS or READ_BODY) does not stay in
\* progress for ever, whatever the stream does: it reaches DONE or ERROR,
\* unless the application ends it with stop() or reset() or replaces it by
\* a new begin*.
C12_ExchangeTerminates ==
    (eng.state \in Active)
       ~> \/ eng.state \in {DONE, ERROR}
          \/ eng.state = IDLE /\ obs.call \in {"stop", "reset"}
          \/ obs.call \in BeginCalls

\* An exchange whose stream stalled in the middle of a chunk ended by the
\* timeout.
C12_Witness ==
    /\ obs.call = "poll" /\ obs.from = READ_BODY /\ obs.sub = CHUNK_DATA
    /\ eng.state = ERROR /\ eng.err = "timeout"
    /\ eng.chunkRemaining > 0 /\ ~sock.peerClosed

\* ---------------------------------------------------------------- C13
\* C13: in both clients a poll() in SEND made before the timeout moves to
\* READ_HEADERS only if print() accepted the whole request, so that in
\* READ_HEADERS and later the bytes written are the whole request; it ends
\* in ERROR "send failed" when print() is called and accepts no byte; and it
\* ends in ERROR with the closed-connection description ("socket closed
\* before send") when it finds the stream not connected.
C13_SendWritesWholeRequest ==
    /\ [][ (obs'.call = "poll" /\ eng.state = SEND /\ eng'.state = READ_HEADERS)
           => obs'.wrote = Len(eng.req) ]_vars
    /\ [][ ( /\ obs'.call = "poll" /\ eng.state = SEND /\ elapsed <= TimeoutMs
             /\ "write" \in obs'.ops /\ obs'.wrote = 0 )
           => (eng'.state = ERROR /\ eng'.err = "send failed") ]_vars
    /\ [][ ( /\ obs'.call = "poll" /\ eng.state = SEND /\ elapsed <= TimeoutMs
             /\ ~(sock.open /\ ~(sock.peerClosed /\ sock.rx = <<>>)) )
           => (eng'.state = ERROR /\ eng'.err = "socket closed before send") ]_vars

\* ---------------------------------------------------------------- C14
\* AsyncHttpsClient is in READ_BODY on a non-chunked response that declared
\* a Content-Length, the sink has been passed that many body bytes, and
\* poll() is called before the timeout.
LengthReachedPoll ==
    /\ cfg.variant = "strict" /\ obs'.call = "poll" /\ elapsed <= TimeoutMs
    /\ eng.state = READ_BODY /\ ~eng.chunked
    /\ eng.contentLength >= 0 /\ Len(obs.fwd) = eng.contentLength

\* C14 as stated: once Content-Length body bytes have been passed to the
\* sink, a further poll() gives DONE.
C14_AsStated == [][LengthReachedPoll => eng'.state = DONE]_vars

\* C14: reaching the declared Content-Length does not complete the body.  A
\* poll() of AsyncHttpsClient in READ_BODY after which the sink has been
\* passed exactly Content-Length body bytes gives DONE if and only if the
\* server has closed the stream; and once that many bytes have been passed,
\* a further poll() on a stream that is connected with nothing to read
\* changes nothing, so the exchange stays in READ_BODY (until the stream
\* closes or the timeout passes).
C14_CompletionOnlyByClosure ==
    /\ [][ ( /\ cfg.variant = "strict" /\ obs'.call = "poll" /\ elapsed <= TimeoutMs
             /\ eng.state = READ_BODY /\ ~eng.chunked /\ eng.contentLength >= 0
             /\ Len(obs'.fwd) = eng.contentLength /\ eng'.state # ERROR )
           => (eng'.state = DONE <=> sock.peerClosed) ]_vars
    /\ [][ (LengthReachedPoll /\ ~sock.peerClosed /\ sock.rx = <<>>)
           => (eng' = eng /\ sock' = sock /\ obs'.ops = {}) ]_vars

\* poll() was called with the declared 2 body bytes already passed to the
\* sink and the stream still open: the state is still READ_BODY.
C14_Witness ==
    /\ cfg.variant = "strict" /\ obs.call = "poll" /\ obs.from = READ_BODY
    /\ obs.ops = {} /\ eng.state = READ_BODY /\ ~eng.chunked
    /\ eng.contentLength = 2 /\ Len(obs.fwd) = 2
    /\ sock.open /\ ~sock.peerClosed

\* ---------------------------------------------------------------- C15
\* C15: in both clients a poll() made in CONNECT, SEND, READ_HEADERS or
\* READ_BODY when the elapsed time exceeds the timeout ends in ERROR with
\* "timeout", issues no connect, read or write, and passes nothing to the
\* sink (nothing accepted, nothing refused, body() unchanged), whatever is
\* buffered on the stream and whether or not the server has closed.
C15_TimeoutCheckedFirst ==
    [][ (obs'.call = "poll" /\ eng.state \in Active /\ elapsed > TimeoutMs)
        => /\ eng'.state = ERROR /\ eng'.err = "timeout"
           /\ obs'.ops \cap StreamIO = {}
           /\ obs'.fwd = obs.fwd /\ obs'.rejected = obs.rejected
           /\ eng'.body = eng.body /\ eng'.httpStatus = eng.httpStatus ]_vars

\* A poll() made in READ_BODY after the timeout failed although the server
\* had delivered the whole response and closed, the body not yet read.
C15_Witness ==
    /\ obs.call = "poll" /\ obs.from = READ_BODY
    /\ eng.state = ERROR /\ eng.err = "timeout"
    /\ sock.peerClosed /\ sock.dlv = Len(Resp.bytes)
    /\ Resp.kind = "plain" /\ Len(obs.fwd) < Len(Resp.body)

\* ---------------------------------------------------------------- C16
\* C16: the state becomes DONE only in a poll() made in READ_BODY before
\* the timeout, with the server having closed the connection; that call
\* stops the stream and has read every byte the server delivered.  Hence in
\* every DONE state the stream is closed, nothing is buffered and the bytes
\* read in the exchange are the bytes delivered, whatever Content-Length
\* the response declared.
C16_DoneOnlyOnClosure ==
    /\ [][ (eng.state # DONE /\ eng'.state = DONE)
           => /\ obs'.call = "poll" /\ eng.state = READ_BODY
              /\ elapsed <= TimeoutMs
              /\ sock.open /\ sock.peerClosed
              /\ "stop" \in obs'.ops
              /\ obs'.got = sock.dlv ]_vars
    /\ [](eng.state = DONE
            => ~sock.open /\ sock.rx = <<>> /\ obs.got = sock.dlv)

\* DONE was reached in a step that read the rest of a body shorter than the
\* Content-Length the response had declared.
C16_Witness ==
    /\ cfg.variant = "strict" /\ obs.call = "poll" /\ obs.from = READ_BODY
    /\ eng.state = DONE /\ "read" \in obs.ops /\ "stop" \in obs.ops
    /\ eng.contentLength = 2 /\ Len(obs.fwd) = 1
    /\ obs.got = sock.dlv /\ sock.dlv = Len(Resp.bytes)

\* ---------------------------------------------------------------- C17
\* The state that follows each state in the order of an exchange.
NextInOrder ==
    [s \in {CONNECT, SEND, READ_HEADERS, READ_BODY} |->
        CASE s = CONNECT -> SEND
          [] s = SEND -> READ_HEADERS
          [] s = READ_HEADERS -> READ_BODY
          [] s = READ_BODY -> DONE]

\* C17: a poll() leaves the state as it is, or moves it to the next state
\* of CONNECT -> SEND -> READ_HEADERS -> READ_BODY -> DONE, or to ERROR; it
\* never skips a state and never goes back.  Every other change of state is
\* made by beginGet, beginPost, stop or reset.
C17_ForwardOneStep ==
    /\ [][ (obs'.call = "poll" /\ eng'.state # eng.state)
           => /\ eng.state \in Active
              /\ eng'.state \in {NextInOrder[eng.state], ERROR} ]_vars
    /\ [][ (eng'.state # eng.state /\ obs'.call # "poll")
           => obs'.call \in BeginCalls \cup {"stop", "reset"} ]_vars

\* A poll() in READ_HEADERS had the blank line and body bytes buffered and
\* the server had closed: it moved to READ_BODY and no further.
C17_Witness ==
    /\ obs.call = "poll" /\ obs.from = READ_HEADERS /\ eng.state = READ_BODY
    /\ cfg.variant = "strict" /\ sock.peerClosed /\ sock.rx # <<>>
    /\ sock.dlv = Len(Resp.bytes) /\ obs.fwd = <<>>

\* ---------------------------------------------------------------- C18
\* C18: a poll() made in READ_HEADERS or READ_BODY before the timeout, on a
\* stream that is connected with nothing buffered, changes no field of the
\* client (state, chunk sub-state and count, header count, line buffers,
\* status, body, overflow flag), leaves the stream as it is, issues no read
\* and offers nothing to the sink; as the client and the stream are what
\* they were, the next poll() starts from the same point.
C18_WaitingPollChangesNothing ==
    [][ (ReadingPoll /\ Silent)
        => /\ eng' = eng /\ sock' = sock /\ elapsed' = elapsed /\ cfg' = cfg
           /\ obs'.ops = {}
           /\ obs'.fwd = obs.fwd /\ obs'.rejected = obs.rejected
           /\ obs'.got = obs.got ]_vars

\* A poll() found the stream silent in the middle of a chunk, part of the
\* chunk already passed to the sink, and left the decoder where it was.
C18_Witness ==
    /\ cfg.variant = "strict" /\ obs.call = "poll" /\ obs.ops = {}
    /\ obs.from = READ_BODY /\ obs.sub = CHUNK_DATA
    /\ eng.state = READ_BODY /\ eng.chunkState = CHUNK_DATA
    /\ eng.chunkRemaining > 0 /\ obs.fwd # <<>> /\ eng.headerBytes > 0
    /\ Silent /\ elapsed <= TimeoutMs

\* ---------------------------------------------------------------- C19
\* C19: in AsyncHttpsClient the count of header bytes runs over the whole
\* exchange.  While headers are read and in READ_BODY and DONE the count is
\* the number of header bytes read and is at most maxHeaderBytes; a step
\* into READ_BODY has read the blank line within the cap.  The step in
\* which the count passes maxHeaderBytes is a poll() that ends in ERROR
\* with "headers too large", having read exactly maxHeaderBytes + 1 bytes
\* in the exchange: the byte that broke the cap is the last one read.
C19_HeaderCapAcrossPolls ==
    /\ [](cfg.variant = "strict" /\ eng.state \in {READ_HEADERS, READ_BODY, DONE}
            => eng.headerBytes <= MaxHeaderBytes)
    /\ [](cfg.variant = "strict" /\ eng.state = READ_HEADERS
            => eng.headerBytes = obs.got)
    /\ [][ (cfg.variant = "strict" /\ eng.state = READ_HEADERS /\ eng'.state = READ_BODY)
           => /\ eng'.headerBytes = obs'.got
              /\ eng'.headerBytes <= MaxHeaderBytes
              /\ eng'.seenHeaderEnd ]_vars
    /\ [][ (cfg.variant = "strict" /\ eng.headerBytes <= MaxHeaderBytes
              /\ eng'.headerBytes > MaxHeaderBytes)
           => /\ obs'.call = "poll" /\ eng.state = READ_HEADERS
              /\ eng'.state = ERROR /\ eng'.err = "headers too large"
              /\ eng'.headerBytes = MaxHeaderBytes + 1
              /\ obs'.got = MaxHeaderBytes + 1 ]_vars

\* A poll() in READ_HEADERS failed at byte maxHeaderBytes + 1 of a header
\* block made of several lines, the line being read far shorter than the
\* cap, and left the bytes behind that byte unread.
C19_Witness ==
    /\ cfg.variant = "strict" /\ obs.call = "poll" /\ obs.from = READ_HEADERS
    /\ eng.state = ERROR /\ eng.err = "headers too large"
    /\ eng.headerBytes = MaxHeaderBytes + 1 /\ obs.got = MaxHeaderBytes + 1
    /\ sock.dlv > MaxHeaderBytes + 1
    /\ Len(eng.line) < MaxHeaderBytes \div 2

\* ---------------------------------------------------------------- C20
\* C20: when AsyncHttpsClient has decoded a chunked response and is DONE,
\* the decoder has read the zero-length chunk (sub-state CHUNK_DONE) and
\* no byte of a chunk is outstanding.
C20_ChunkedDoneAfterLastChunk ==
    (cfg.variant = "strict" /\ eng.state = DONE /\ eng.chunked)
        => (eng.chunkState = CHUNK_DONE /\ eng.chunkRemaining = 0)

\* ---------------------------------------------------------------- C21
RECURSIVE SizesUpTo(_, _)
\* The sum of the first k chunk sizes.
SizesUpTo(sizes, k) == IF k = 0 THEN 0 ELSE SizesUpTo(sizes, k - 1) + sizes[k]

\* AsyncHttpsClient is decoding, or has stopped decoding, a well-formed
\* chunked response.
DecodingChunks ==
    /\ cfg.variant = "strict" /\ eng.state \in {READ_BODY, DONE, ERROR}
    /\ eng.chunked /\ eng.seenHeaderEnd
    /\ sock.rid # 0 /\ Resp.kind = "chunked"

\* C21: in AsyncHttpsClient _chunkRemaining is never negative and is
\* greater than 0 exactly in sub-state CHUNK_DATA.  While a chunked
\* response is decoded, the bytes passed to the sink are a prefix of the
\* body sent; in CHUNK_DATA of chunk k the bytes passed so far plus
\* _chunkRemaining are the declared sizes of chunks 1..k, the bytes passed
\* of chunk k being fewer than its size; in every other sub-state the bytes
\* passed are the whole of the chunks read so far: each chunk gives the
\* sink exactly the number of bytes of its size line.
C21_ChunkCountExact ==
    /\ cfg.variant = "strict"
         => /\ eng.chunkRemaining >= 0
            /\ eng.chunkState = CHUNK_DATA <=> eng.chunkRemaining > 0
    /\ DecodingChunks
         => /\ IsPrefix(obs.fwd, Resp.body)
            /\ IF eng.chunkState = CHUNK_DATA
               THEN \E k \in 1..Len(Resp.sizes) :
                       /\ Len(obs.fwd) + eng.chunkRemaining = SizesUpTo(Resp.sizes, k)
                       /\ Len(obs.fwd) >= SizesUpTo(Resp.sizes, k - 1)
               ELSE \E k \in 0..Len(Resp.sizes) :
                       Len(obs.fwd) = SizesUpTo(Resp.sizes, k)

\* A poll() read the first byte of a chunk longer than the read buffer and
\* then more of it in bulk, and stopped inside the chunk.
C21_Witness ==
    /\ DecodingChunks /\ obs.call = "poll" /\ "read" \in obs.ops
    /\ eng.state = READ_BODY /\ eng.chunkState = CHUNK_DATA
    /\ Resp.sizes[1] > bufSz + 1
    /\ Len(obs.fwd) > bufSz + 1
    /\ eng.chunkRemaining > 0
    /\ Len(obs.fwd) + eng.chunkRemaining = Resp.sizes[1]

====
